---- MODULE Spec2Model ----
(***************************************************************************)
(* Cognitive profile adaptation of the adaptive-tutor platform.            *)
(*                                                                         *)
(* The persisted cognitive_profiles row of one learner, and the            *)
(* update-profile endpoint (update_cognitive_profile) that loads the row,  *)
(* asks the behavioural analytics service for inferred updates, applies    *)
(* them to the loaded object, bumps the metadata counters and commits.     *)
(* Two callers can invoke the endpoint for the same learner: the button of *)
(* the analytics dashboard and the periodic analysis.                      *)
(*                                                                         *)
(* Confidences are FLOAT columns in [0.0, 1.0]; they are represented       *)
(* exactly as integer numerators over the denominator Scale.               *)
(***************************************************************************)
EXTENDS Integers, FiniteSets, Sequences, TLC

\* ------------------------------------------------------------------ bounds
\* Number of update-profile invocations started in one behaviour.
MaxInvocations == 2
\* Largest number of dimensions one inference result list carries.
MaxSignals == 1
\* Largest count of video, and of text, interactions in a window.
MaxCount == 2
\* Number of profile-field edits in one behaviour of the Register form.
MaxEdits == 2
\* Number of times the component using useSessionTracking is mounted.
MaxMounts == 4
\* Number of questions of the onboarding questionnaire.
NumQuestions == 3
\* Number of questionnaire requests, and of submissions, one wizard sends.
MaxFetches == 2
MaxSubmits == 2
\* Number of user messages in one Chat.
MaxUserMessages == 3
\* Number of logins started in one behaviour.
MaxLogins == 2

\* --------------------------------------------------------------- constants
AdaptationRatePct == 15
ConfidenceThresholdPct == 70
DefaultConfidencePct == 50
InitialProfileVersion == 1
InitialTotalAdaptations == 0

\* Denominator of the confidence numerators: every blend multiplies the
\* denominator of a confidence by 20 (0.85 = 17/20, 0.15 = 3/20).
Scale == 100 * (20 ^ MaxInvocations)

Pct(n) == n * (Scale \div 100)

\* -------------------------------------------------------------- data model
Dims ==
    {"instruction_flow", "input_preference", "engagement_style", "concept_type",
     "learning_autonomy", "motivation_type", "feedback_preference",
     "complexity_tolerance"}

Domain ==
    [instruction_flow     |-> {"linear", "exploratory", "mixed"},
     input_preference     |-> {"visual", "verbal", "mixed"},
     engagement_style     |-> {"passive", "active", "mixed"},
     concept_type         |-> {"concrete", "abstract", "mixed"},
     learning_autonomy    |-> {"guided", "independent", "mixed"},
     motivation_type      |-> {"intrinsic", "extrinsic", "mixed"},
     feedback_preference  |-> {"immediate", "delayed", "mixed"},
     complexity_tolerance |-> {"low", "medium", "high"}]

DefaultValue ==
    [instruction_flow     |-> "linear",
     input_preference     |-> "mixed",
     engagement_style     |-> "mixed",
     concept_type         |-> "mixed",
     learning_autonomy    |-> "guided",
     motivation_type      |-> "mixed",
     feedback_preference  |-> "immediate",
     complexity_tolerance |-> "medium"]

\* A stored profile at its first version: the column defaults, except for the
\* learning autonomy a, with the confidences c.
StoredProfile(a, c) ==
    [value             |-> [DefaultValue EXCEPT !["learning_autonomy"] = a],
     confidence        |-> c,
     profile_version   |-> InitialProfileVersion,
     total_adaptations |-> InitialTotalAdaptations]

\* The profiles a behaviour starts from: the column defaults; a profile that
\* an earlier assessment left at independent / 0.80; and a profile with
\* confidences at both ends of the column's range.
InitProfiles ==
    { StoredProfile(DefaultValue["learning_autonomy"],
                    [d \in Dims |-> Pct(DefaultConfidencePct)]),
      StoredProfile("independent", [d \in Dims |-> Pct(80)]),
      StoredProfile(DefaultValue["learning_autonomy"],
                    [d \in Dims |->
                        IF d \in {"input_preference", "learning_autonomy",
                                  "instruction_flow", "motivation_type"}
                        THEN Pct(0) ELSE Pct(100)]) }

\* ------------------------------------------------------- inference results
\* The dimensions that have an inference rule, and the candidates
\* (value, confidence in percent) the rules of each can produce.
RuledDims ==
    {"input_preference", "complexity_tolerance", "engagement_style",
     "learning_autonomy"}

Cand(v, c) == [value |-> v, confidence |-> c]

RuleOutcomes ==
    [input_preference     |-> {Cand("visual", 90), Cand("verbal", 90), Cand("mixed", 60)},
     complexity_tolerance |-> {Cand("high", 85), Cand("low", 75), Cand("medium", 70)},
     engagement_style     |-> {Cand("active", 80), Cand("passive", 75), Cand("mixed", 65)},
     learning_autonomy    |-> {Cand("independent", 80), Cand("guided", 75), Cand("mixed", 60)}]

AllCandidates == UNION { RuleOutcomes[d] : d \in RuledDims }

\* The result lists of one window: at most one candidate per ruled dimension.
ResultLists ==
    UNION { { r \in [S -> AllCandidates] : \A d \in S : r[d] \in RuleOutcomes[d] } :
            S \in { T \in SUBSET RuledDims : Cardinality(T) <= MaxSignals } }

NoResults == [d \in {} |-> Cand("mixed", 0)]

\* ------------------------------------------------------------------- merge
Blend(old, cand) ==
    (old * (100 - AdaptationRatePct) + cand * AdaptationRatePct) \div 100

\* behavioral_analytics_service.infer_cognitive_updates: the updates to the
\* values, the blended confidence scores and the evidence they rest on.
InferCognitiveUpdates(profile, results) ==
    [updates |->
        [d \in { e \in DOMAIN results :
                   results[e].confidence >= ConfidenceThresholdPct } |->
            results[d].value],
     confidence_scores |->
        [d \in DOMAIN results |->
            Blend(profile.confidence[d], Pct(results[d].confidence))],
     supporting_data |-> results]

\* Variants of the two setattr loops, each with one slip: the loop over the
\* updates left out, the loop over the confidence scores left out, every
\* confidence without a score put back to the column default, and the
\* confidence scores added to the stored confidences.
ApplyUpdatesNoValues(profile, u) ==
    [profile EXCEPT
        !.confidence = [d \in Dims |->
                      IF d \in DOMAIN u.confidence_scores
                      THEN u.confidence_scores[d] ELSE @[d]]]

ApplyUpdatesNoConfidence(profile, u) ==
    [profile EXCEPT
        !.value = [d \in Dims |->
                      IF d \in DOMAIN u.updates THEN u.updates[d] ELSE @[d]]]

ApplyUpdatesDefaulting(profile, u) ==
    [profile EXCEPT
        !.value = [d \in Dims |->
                      IF d \in DOMAIN u.updates THEN u.updates[d] ELSE @[d]],
        !.confidence = [d \in Dims |->
                      IF d \in DOMAIN u.confidence_scores
                      THEN u.confidence_scores[d] ELSE Pct(DefaultConfidencePct)]]

ApplyUpdatesAccumulate(profile, u) ==
    [profile EXCEPT
        !.value = [d \in Dims |->
                      IF d \in DOMAIN u.updates THEN u.updates[d] ELSE @[d]],
        !.confidence = [d \in Dims |->
                      IF d \in DOMAIN u.confidence_scores
                      THEN @[d] + u.confidence_scores[d] ELSE @[d]]]

\* The two setattr loops of the endpoint.
ApplyUpdates(profile, u) ==
    [profile EXCEPT
        !.value = [d \in Dims |->
                      IF d \in DOMAIN u.updates THEN u.updates[d] ELSE @[d]],
        !.confidence = [d \in Dims |->
                      IF d \in DOMAIN u.confidence_scores
                      THEN u.confidence_scores[d] ELSE @[d]]]

\* profile.total_adaptations += 1; profile.profile_version += 1
Bookkeeping(profile) ==
    [profile EXCEPT !.total_adaptations = @ + 1, !.profile_version = @ + 1]

\* The body of the endpoint between the load and the commit.
Merge(profile, results) ==
    Bookkeeping(ApplyUpdates(profile, InferCognitiveUpdates(profile, results)))

\* The UPDATE that db.commit() flushes: the columns of the loaded object
\* whose value differs from the value loaded, and no other column.
Flush(row, loaded, obj) ==
    [value |-> [d \in Dims |->
                   IF obj.value[d] # loaded.value[d]
                   THEN obj.value[d] ELSE row.value[d]],
     confidence |-> [d \in Dims |->
                   IF obj.confidence[d] # loaded.confidence[d]
                   THEN obj.confidence[d] ELSE row.confidence[d]],
     profile_version |->
                   IF obj.profile_version # loaded.profile_version
                   THEN obj.profile_version ELSE row.profile_version,
     total_adaptations |->
                   IF obj.total_adaptations # loaded.total_adaptations
                   THEN obj.total_adaptations ELSE row.total_adaptations]

\* ------------------------------------------------------------------- state
Procs == {"manual", "scheduled"}

NoProfile == [profile_version |-> 0]

VARIABLES
    db,        \* the persisted cognitive_profiles row of the learner
    pc,        \* where each caller's invocation stands
    snap,      \* the profile as the invocation loaded it
    res,       \* the inference results the invocation works with
    work,      \* the loaded object after the endpoint modified it
    error,     \* how a failed invocation failed
    attempts,  \* commits the invocation has issued
    started    \* invocations started so far

\* The telemetry pipeline (aggregate, infer) of one window.
VARIABLES
    counts,    \* the interaction counts of the window's raw records
    window,    \* the behavioural window the aggregation produced
    inferred,  \* the inference results of the window
    stage      \* how far the pipeline has come

\* The Register form.
VARIABLES
    formData,  \* the form's state: email, password, cognitive_profile
    formState, \* "editing", "loading", "success" or "error"
    submitted, \* the cognitive profiles posted to the register endpoint
    edits      \* profile fields edited so far

\* The useSessionTracking hook of a mounted component.
VARIABLES
    hookMounted,      \* the component using the hook is mounted
    mounts,           \* how many times it has been mounted
    sessionId,        \* the hook's sessionId state
    cleanupSessionId, \* the sessionId the effect's cleanup closed over
    startInFlight,    \* the mounts whose POST /sessions/start is pending
    received,         \* the session ids set into the sessionId state
    ended             \* the session ids POSTed to /sessions/{id}/end

\* The router and the OnboardingWizard component.
VARIABLES
    location,       \* the path the router is at
    wizMounted,     \* OnboardingWizard is mounted
    questions,      \* the questionnaire loaded so far (question ids)
    currentStep,    \* index of the step shown
    responses,      \* the answer given to each question id
    goals,          \* goals.learning_goal
    wizLoading,     \* loading
    submitting,     \* submitting
    wizError,       \* error: "none", "load" or "submit"
    fetchInFlight,  \* pending GET /onboarding/questionnaire requests
    fetchesSent,    \* questionnaire requests sent so far
    submitInFlight, \* pending POST /onboarding/submit requests
    submitsSent     \* submissions sent so far

\* The Chat component.
VARIABLES
    messages,     \* the message list
    inputValue,   \* the text of the input
    isLoading,    \* isLoading
    chatInFlight  \* pending POST /chat/conversation requests

\* AuthProvider, the token storage and the login in progress.
VARIABLES
    token,           \* the stored token: "none", "valid" or "expired"
    user,            \* user: "null" or "record"
    isAuthenticated, \* isAuthenticated
    authLoading,     \* loading
    validatePc,      \* validateToken: "start", "me" or "done"
    validateOutcome, \* what the backend said to validateToken's request
    loginPc,         \* login: "idle", "token" (first await) or "me" (second)
    loginsStarted,   \* logins started so far
    loggedOut        \* logout was called and no login was started since

endpointVars == <<db, pc, snap, res, work, error, attempts, started>>
pipelineVars == <<counts, window, inferred, stage>>
registerVars == <<formData, formState, submitted, edits>>

trackVars == <<hookMounted, mounts, sessionId, cleanupSessionId,
               startInFlight, received, ended>>
routerVars == <<location>>
wizardVars == <<wizMounted, questions, currentStep, responses, goals,
                wizLoading, submitting, wizError, fetchInFlight, fetchesSent,
                submitInFlight, submitsSent>>
chatVars == <<messages, inputValue, isLoading, chatInFlight>>
authVars == <<token, user, isAuthenticated, authLoading, validatePc,
              validateOutcome, loginPc, loginsStarted, loggedOut>>
frontendVars == <<trackVars, routerVars, wizardVars, chatVars, authVars>>

vars == <<endpointVars, pipelineVars, registerVars, frontendVars>>

\* ---------------------------------------------- windows and form at rest
\* Absent value of a numeric window field (every present value is >= 0).
Null == 0 - 1

\* A fraction; the denominator 0 stands for the absent ratio.
Frac(n, d) == [num |-> n, den |-> d]
NullRatio == Frac(0, 0)

WindowFields ==
    {"video_to_text_ratio", "avg_video_engagement", "avg_text_engagement",
     "learning_velocity", "completion_rate", "frustration_events",
     "interactive_engagement_rate", "concept_revisit_rate", "focus_score"}

\* The window with no signal at all.
NoWindow ==
    [video_to_text_ratio         |-> NullRatio,
     avg_video_engagement        |-> Null,
     avg_text_engagement         |-> Null,
     learning_velocity           |-> Null,
     completion_rate             |-> Null,
     frustration_events          |-> Null,
     interactive_engagement_rate |-> Null,
     concept_revisit_rate        |-> Null,
     focus_score                 |-> Null]

NoCounts == [videos |-> 0, text |-> 0]

\* No pipeline runs.
PipelineOff ==
    /\ counts = NoCounts
    /\ window = NoWindow
    /\ inferred = {}
    /\ stage = "off"

\* initialProfile of the Register form.
initialProfile ==
    [instruction_flow     |-> "sequential",
     input_preference     |-> "verbal",
     engagement_style     |-> "reflective",
     concept_type         |-> "intuitive",
     learning_autonomy    |-> "guided",
     motivation_type      |-> "intrinsic",
     feedback_preference  |-> "delayed",
     complexity_tolerance |-> "high"]

\* The Register form as it is first rendered.
RegisterOff ==
    /\ formData = [email |-> "", password |-> "",
                   cognitive_profile |-> initialProfile]
    /\ formState = "editing"
    /\ submitted = {}
    /\ edits = 0

\* useState(null): no session id.
NoSession == 0

\* No component using the hook has been mounted.
TrackOff ==
    /\ hookMounted = FALSE
    /\ mounts = 0
    /\ sessionId = NoSession
    /\ cleanupSessionId = NoSession
    /\ startInFlight = {}
    /\ received = {}
    /\ ended = {}

\* The questionnaire the backend serves: question ids 1..NumQuestions.
Questionnaire == [i \in 1..NumQuestions |-> i]

\* responses[id] of a question that has no entry.
Unanswered == "undefined"

\* The router is at no path yet.
RouterOff == location = "about:blank"

\* OnboardingWizard's useState initial values; not mounted.
WizardOff ==
    /\ wizMounted = FALSE
    /\ questions = << >>
    /\ currentStep = 0
    /\ responses = [q \in 1..NumQuestions |-> Unanswered]
    /\ goals = ""
    /\ wizLoading = TRUE
    /\ submitting = FALSE
    /\ wizError = "none"
    /\ fetchInFlight = 0
    /\ fetchesSent = 0
    /\ submitInFlight = 0
    /\ submitsSent = 0

Message(r, c) == [role |-> r, content |-> c]

\* Chat's useState initial values.
ChatOff ==
    /\ messages = << Message("assistant", "Hello!") >>
    /\ inputValue = ""
    /\ isLoading = FALSE
    /\ chatInFlight = 0

\* AuthProvider's useState initial values for a stored token t.
AuthMounted(t) ==
    /\ token = t
    /\ user = "null"
    /\ isAuthenticated = (t # "none")
    /\ authLoading = TRUE
    /\ validatePc = "start"
    /\ validateOutcome = "none"
    /\ loginPc = "idle"
    /\ loginsStarted = 0
    /\ loggedOut = FALSE

\* AuthProvider with nothing stored.
AuthOff == AuthMounted("none")

\* The browser application has not been opened.
FrontendOff == TrackOff /\ RouterOff /\ WizardOff /\ ChatOff /\ AuthOff

\* No update-profile invocation is under way.
EndpointIdle ==
    /\ pc = [p \in Procs |-> "idle"]
    /\ snap = [p \in Procs |-> NoProfile]
    /\ res = [p \in Procs |-> NoResults]
    /\ work = [p \in Procs |-> NoProfile]
    /\ error = [p \in Procs |-> "none"]
    /\ attempts = [p \in Procs |-> 0]
    /\ started = 0

Init ==
    /\ PipelineOff
    /\ RegisterOff
    /\ FrontendOff
    /\ db \in InitProfiles
    /\ pc = [p \in Procs |-> "idle"]
    /\ snap = [p \in Procs |-> NoProfile]
    /\ res = [p \in Procs |-> NoResults]
    /\ work = [p \in Procs |-> NoProfile]
    /\ error = [p \in Procs |-> "none"]
    /\ attempts = [p \in Procs |-> 0]
    /\ started = 0

\* The request arrives: the dependencies load the user and its profile.
Begin(p) ==
    /\ pc[p] = "idle"
    /\ started < MaxInvocations
    /\ started' = started + 1
    /\ snap' = [snap EXCEPT ![p] = db]
    /\ pc' = [pc EXCEPT ![p] = "infer"]
    /\ UNCHANGED <<db, res, work, error, attempts>>
    /\ UNCHANGED <<pipelineVars, registerVars, frontendVars>>

\* Serialised use: an invocation starts when no other is in flight.
BeginSerial(p) ==
    /\ \A q \in Procs : pc[q] = "idle"
    /\ Begin(p)

\* infer_cognitive_updates returns; the endpoint applies the updates to the
\* loaded object and bumps the counters (no await in between).
InferOk(p) ==
    /\ pc[p] = "infer"
    /\ \E results \in ResultLists :
          /\ res' = [res EXCEPT ![p] = results]
          /\ work' = [work EXCEPT ![p] = Merge(snap[p], results)]
    /\ pc' = [pc EXCEPT ![p] = "commit"]
    /\ UNCHANGED <<db, snap, error, attempts, started>>
    /\ UNCHANGED <<pipelineVars, registerVars, frontendVars>>

\* A variant of InferFail with one slip: the exception is caught and the
\* endpoint goes on with no updates.
InferFailSwallowed(p) ==
    /\ pc[p] = "infer"
    /\ \E e \in {"DataUnavailable", "InferenceError"} :
          error' = [error EXCEPT ![p] = e]
    /\ res' = [res EXCEPT ![p] = NoResults]
    /\ work' = [work EXCEPT ![p] = Merge(snap[p], NoResults)]
    /\ pc' = [pc EXCEPT ![p] = "commit"]
    /\ UNCHANGED <<db, snap, attempts, started>>
    /\ UNCHANGED <<pipelineVars, registerVars, frontendVars>>

\* infer_cognitive_updates raises (record store unreachable, inference
\* error): the exception leaves the endpoint before the profile is touched.
InferFail(p) ==
    /\ pc[p] = "infer"
    /\ \E e \in {"DataUnavailable", "InferenceError"} :
          error' = [error EXCEPT ![p] = e]
    /\ pc' = [pc EXCEPT ![p] = "failed"]
    /\ UNCHANGED <<db, snap, res, work, attempts, started>>
    /\ UNCHANGED <<pipelineVars, registerVars, frontendVars>>

\* await db.commit() succeeds: one transaction writes the modified columns.
CommitOk(p) ==
    /\ pc[p] = "commit"
    /\ db' = Flush(db, snap[p], work[p])
    /\ attempts' = [attempts EXCEPT ![p] = @ + 1]
    /\ pc' = [pc EXCEPT ![p] = "done"]
    /\ UNCHANGED <<snap, res, work, error, started>>
    /\ UNCHANGED <<pipelineVars, registerVars, frontendVars>>

\* A variant of CommitFail with one slip: the statements flushed before the
\* failure stay committed (the values, not the confidences and counters).
CommitFailPartial(p) ==
    /\ pc[p] = "commit"
    /\ db' = [db EXCEPT !.value = Flush(db, snap[p], work[p]).value]
    /\ attempts' = [attempts EXCEPT ![p] = @ + 1]
    /\ error' = [error EXCEPT ![p] = "PersistenceError"]
    /\ pc' = [pc EXCEPT ![p] = "failed"]
    /\ UNCHANGED <<snap, res, work, started>>
    /\ UNCHANGED <<pipelineVars, registerVars, frontendVars>>

\* await db.commit() raises: the transaction is rolled back.
CommitFail(p) ==
    /\ pc[p] = "commit"
    /\ db' = db
    /\ attempts' = [attempts EXCEPT ![p] = @ + 1]
    /\ error' = [error EXCEPT ![p] = "PersistenceError"]
    /\ pc' = [pc EXCEPT ![p] = "failed"]
    /\ UNCHANGED <<snap, res, work, started>>
    /\ UNCHANGED <<pipelineVars, registerVars, frontendVars>>

\* The request is cancelled or times out while it awaits.
Cancel(p) ==
    /\ pc[p] \in {"infer", "commit"}
    /\ db' = db
    /\ error' = [error EXCEPT ![p] = "Cancelled"]
    /\ pc' = [pc EXCEPT ![p] = "failed"]
    /\ UNCHANGED <<snap, res, work, attempts, started>>
    /\ UNCHANGED <<pipelineVars, registerVars, frontendVars>>

\* The response (profile and supporting_data, or the failure) has been
\* delivered; the caller may invoke the endpoint again.
Return(p) ==
    /\ pc[p] \in {"done", "failed"}
    /\ pc' = [pc EXCEPT ![p] = "idle"]
    /\ snap' = [snap EXCEPT ![p] = NoProfile]
    /\ res' = [res EXCEPT ![p] = NoResults]
    /\ work' = [work EXCEPT ![p] = NoProfile]
    /\ error' = [error EXCEPT ![p] = "none"]
    /\ attempts' = [attempts EXCEPT ![p] = 0]
    /\ UNCHANGED <<db, started>>
    /\ UNCHANGED <<pipelineVars, registerVars, frontendVars>>

\* The endpoint does not look at who calls it, so serial behaviours differ
\* only in the callers' names: the two callers take turns, manual first.
Turn == IF started % 2 = 0 THEN "manual" ELSE "scheduled"

Next ==
    \E p \in Procs :
        \/ p = Turn /\ BeginSerial(p)
        \/ InferOk(p)
        \/ InferFail(p)
        \/ CommitOk(p)
        \/ CommitFail(p)
        \/ Cancel(p)
        \/ Return(p)

Spec == Init /\ [][Next]_vars

\* The endpoint takes no lock and checks no version: invocations of the two
\* callers may overlap.
NextOverlap ==
    \E p \in Procs :
        \/ Begin(p)
        \/ InferOk(p)
        \/ InferFail(p)
        \/ CommitOk(p)
        \/ CommitFail(p)
        \/ Cancel(p)
        \/ Return(p)

SpecOverlap == Init /\ [][NextOverlap]_vars

\* ------------------------------------------------------ inference rules
\* Comparisons of a fraction with the number a / b.
RatioGT(r, a, b) == r.num * b > a * r.den
RatioLT(r, a, b) == r.num * b < a * r.den

\* Window fields are held in hundredths (3.5 is 350, 0.7 is 70, 30% is 30,
\* a revisit rate of 1.2 is 120); frustration_events is a count.

\* Variants of the rule conditions with a non-strict comparison.
InputVisualCondNonStrict(w) ==
    /\ ~RatioLT(w.video_to_text_ratio, 2, 1)
    /\ w.avg_video_engagement > 350

EngagementActiveCondNonStrict(w) == w.interactive_engagement_rate >= 30

\* A variant of the condition below with the threshold rescaled to a
\* proportion of videos among videos and text (2 of 3).
InputVisualCondProportion(w) ==
    /\ RatioGT(w.video_to_text_ratio, 2, 3)
    /\ w.avg_video_engagement > 350

\* IF video_to_text_ratio > 2.0 AND avg_video_engagement > 3.5
InputVisualCond(w) ==
    /\ RatioGT(w.video_to_text_ratio, 2, 1)
    /\ w.avg_video_engagement > 350

\* ELIF video_to_text_ratio < 0.5 AND avg_text_engagement > 3.5
InputVerbalCond(w) ==
    /\ RatioLT(w.video_to_text_ratio, 1, 2)
    /\ w.avg_text_engagement > 350

\* IF learning_velocity > 0.7 AND completion_rate > 0.8
ComplexityHighCond(w) ==
    /\ w.learning_velocity > 70
    /\ w.completion_rate > 80

\* ELIF frustration_events > 5 OR completion_rate < 0.5
ComplexityLowCond(w) ==
    \/ w.frustration_events > 5
    \/ w.completion_rate < 50

\* IF interactive_resources > 30% of total
EngagementActiveCond(w) == w.interactive_engagement_rate > 30

\* ELIF interactive_resources < 10% of total
EngagementPassiveCond(w) == w.interactive_engagement_rate < 10

\* IF concept_revisit_rate < 1.2 AND focus_score > 0.7
AutonomyIndependentCond(w) ==
    /\ w.concept_revisit_rate < 120
    /\ w.focus_score > 70

\* ELIF concept_revisit_rate > 2.0 OR frustration_events > 3
AutonomyGuidedCond(w) ==
    \/ w.concept_revisit_rate > 200
    \/ w.frustration_events > 3

\* One rule of a chain: the window fields it reads, whether its condition
\* holds of the window, and the candidate it yields.
Rule(f, c, o) == [fields |-> f, fires |-> c, out |-> o]

\* A variant of the chain below whose fallback carries the confidence of the
\* complexity tolerance fallback.
InputPreferenceChainFallbackAt70(w) ==
    << Rule({"video_to_text_ratio", "avg_video_engagement"},
            InputVisualCond(w), Cand("visual", 90)),
       Rule({"video_to_text_ratio", "avg_text_engagement"},
            InputVerbalCond(w), Cand("verbal", 90)),
       Rule({}, TRUE, Cand("mixed", 70)) >>

InputPreferenceChain(w) ==
    << Rule({"video_to_text_ratio", "avg_video_engagement"},
            InputVisualCond(w), Cand("visual", 90)),
       Rule({"video_to_text_ratio", "avg_text_engagement"},
            InputVerbalCond(w), Cand("verbal", 90)),
       Rule({}, TRUE, Cand("mixed", 60)) >>

\* Variants of the chains below with the first two rules in the other order.
ComplexityToleranceChainLowFirst(w) ==
    << Rule({"frustration_events", "completion_rate"},
            ComplexityLowCond(w), Cand("low", 75)),
       Rule({"learning_velocity", "completion_rate"},
            ComplexityHighCond(w), Cand("high", 85)),
       Rule({}, TRUE, Cand("medium", 70)) >>

LearningAutonomyChainGuidedFirst(w) ==
    << Rule({"concept_revisit_rate", "frustration_events"},
            AutonomyGuidedCond(w), Cand("guided", 75)),
       Rule({"concept_revisit_rate", "focus_score"},
            AutonomyIndependentCond(w), Cand("independent", 80)),
       Rule({}, TRUE, Cand("mixed", 60)) >>

\* A variant of the chain below in which every rule waits for all the fields
\* of the dimension.
ComplexityToleranceChainAllFields(w) ==
    << Rule({"learning_velocity", "completion_rate", "frustration_events"},
            ComplexityHighCond(w), Cand("high", 85)),
       Rule({"learning_velocity", "completion_rate", "frustration_events"},
            ComplexityLowCond(w), Cand("low", 75)),
       Rule({}, TRUE, Cand("medium", 70)) >>

ComplexityToleranceChain(w) ==
    << Rule({"learning_velocity", "completion_rate"},
            ComplexityHighCond(w), Cand("high", 85)),
       Rule({"frustration_events", "completion_rate"},
            ComplexityLowCond(w), Cand("low", 75)),
       Rule({}, TRUE, Cand("medium", 70)) >>

\* A variant of the chain below that does not declare the field it reads,
\* so that a missing rate is compared like a number.
EngagementStyleChainNullBlind(w) ==
    << Rule({}, EngagementActiveCond(w), Cand("active", 80)),
       Rule({}, EngagementPassiveCond(w), Cand("passive", 75)),
       Rule({}, TRUE, Cand("mixed", 65)) >>

EngagementStyleChain(w) ==
    << Rule({"interactive_engagement_rate"},
            EngagementActiveCond(w), Cand("active", 80)),
       Rule({"interactive_engagement_rate"},
            EngagementPassiveCond(w), Cand("passive", 75)),
       Rule({}, TRUE, Cand("mixed", 65)) >>

LearningAutonomyChain(w) ==
    << Rule({"concept_revisit_rate", "focus_score"},
            AutonomyIndependentCond(w), Cand("independent", 80)),
       Rule({"concept_revisit_rate", "frustration_events"},
            AutonomyGuidedCond(w), Cand("guided", 75)),
       Rule({}, TRUE, Cand("mixed", 60)) >>

\* A variant of the rule sets below with an invented rule for
\* feedback_preference.
RuleChainsInvented(w) ==
    [input_preference     |-> InputPreferenceChain(w),
     complexity_tolerance |-> ComplexityToleranceChain(w),
     engagement_style     |-> EngagementStyleChain(w),
     learning_autonomy    |-> LearningAutonomyChain(w),
     feedback_preference  |->
        << Rule({"frustration_events"}, w.frustration_events > 3,
                Cand("delayed", 70)),
           Rule({}, TRUE, Cand("mixed", 60)) >>]

\* The documented rule sets, one chain per ruled dimension.
RuleChains(w) ==
    [input_preference     |-> InputPreferenceChain(w),
     complexity_tolerance |-> ComplexityToleranceChain(w),
     engagement_style     |-> EngagementStyleChain(w),
     learning_autonomy    |-> LearningAutonomyChain(w)]

\* Every field of the set has a value in the window.
Present(w, fields) ==
    \A f \in fields :
        IF f = "video_to_text_ratio" THEN w[f] # NullRatio ELSE w[f] # Null

\* The window fields the rules of a chain read.
NeededFields(chain) == UNION { chain[i].fields : i \in 1..Len(chain) }

\* A variant of FirstMatch with one slip: a chain that misses a field falls
\* back to its last rule.
FirstMatchDefaulting(w, chain) ==
    LET firing == { i \in 1..(Len(chain) - 1) :
                        Present(w, chain[i].fields) /\ chain[i].fires }
    IN  IF firing # {}
        THEN { chain[CHOOSE i \in firing : \A j \in firing : i <= j].out }
        ELSE { chain[Len(chain)].out }

\* The candidates of one chain: the first rule whose fields are all present
\* and whose condition holds; else the fallback when no field of the chain
\* is missing; else nothing.
FirstMatch(w, chain) ==
    LET firing == { i \in 1..(Len(chain) - 1) :
                        Present(w, chain[i].fields) /\ chain[i].fires }
    IN  IF firing # {}
        THEN { chain[CHOOSE i \in firing : \A j \in firing : i <= j].out }
        ELSE IF Present(w, NeededFields(chain))
             THEN { chain[Len(chain)].out }
             ELSE {}

\* infer(window): the list of InferenceResults.
Infer(w) ==
    UNION { { [dimension |-> d, candidate_value |-> c.value,
               confidence |-> c.confidence] :
                 c \in FirstMatch(w, RuleChains(w)[d]) } :
            d \in DOMAIN RuleChains(w) }

\* The result list as the merge reads it: candidates keyed by dimension.
AsResults(list) ==
    [d \in { r.dimension : r \in list } |->
        LET r == CHOOSE x \in list : x.dimension = d
        IN  Cand(r.candidate_value, r.confidence)]

\* The windows inference is run on: every field absent, at, below and above
\* the thresholds of the rules that read it.
WindowsWithRatio(ratios) ==
    [video_to_text_ratio         : ratios,
     avg_video_engagement        : {Null, 350, 400},
     avg_text_engagement         : {Null, 350, 400},
     learning_velocity           : {Null, 70, 80},
     completion_rate             : {Null, 40, 50, 90},
     frustration_events          : {Null, 3, 4, 6},
     interactive_engagement_rate : {Null, 5, 10, 30, 40},
     concept_revisit_rate        : {Null, 100, 120, 250},
     focus_score                 : {Null, 70, 80}]

Windows ==
    WindowsWithRatio({NullRatio, Frac(1, 4), Frac(1, 2), Frac(2, 1),
                      Frac(3, 1)})

\* infer(window) is evaluated.
RunInfer ==
    /\ stage = "window"
    /\ inferred' = Infer(window)
    /\ stage' = "inferred"
    /\ UNCHANGED <<counts, window, endpointVars, registerVars, frontendVars>>

InitInfer ==
    /\ db = StoredProfile(DefaultValue["learning_autonomy"],
                          [d \in Dims |-> Pct(DefaultConfidencePct)])
    /\ EndpointIdle
    /\ RegisterOff
    /\ FrontendOff
    /\ counts = NoCounts
    /\ window \in Windows
    /\ inferred = {}
    /\ stage = "window"

NextInfer == RunInfer

SpecInfer == InitInfer /\ [][NextInfer]_vars

\* ------------------------------------------------------------ aggregation
\* The counts of video and of text/article interactions of a window.
Counts == [videos : 0..MaxCount, text : 0..MaxCount]

\* A variant of the ratio below: videos per text interaction.
VideoToTextRatioPerText(c) ==
    IF c.text = 0 THEN NullRatio ELSE Frac(c.videos, c.text)

\* video_to_text_ratio = videos / (videos + text); no value when the window
\* has neither.
VideoToTextRatio(c) ==
    IF c.videos + c.text = 0
    THEN NullRatio
    ELSE Frac(c.videos, c.videos + c.text)

\* The other metrics of a window, as aggregation leaves them.
Metrics == WindowsWithRatio({NullRatio})

AggregateWindow(c, m) ==
    [m EXCEPT !.video_to_text_ratio = VideoToTextRatio(c)]

\* aggregate(learner, period) reduces the period's records to a window.
Aggregate ==
    /\ stage = "counts"
    /\ \E m \in Metrics : window' = AggregateWindow(counts, m)
    /\ stage' = "window"
    /\ UNCHANGED <<counts, inferred, endpointVars, registerVars, frontendVars>>

InitAggregate ==
    /\ db = StoredProfile(DefaultValue["learning_autonomy"],
                          [d \in Dims |-> Pct(DefaultConfidencePct)])
    /\ EndpointIdle
    /\ RegisterOff
    /\ FrontendOff
    /\ counts \in Counts
    /\ window = NoWindow
    /\ inferred = {}
    /\ stage = "counts"

NextAggregate == Aggregate

SpecAggregate == InitAggregate /\ [][NextAggregate]_vars

\* ------------------------------------------- aggregate, infer, merge
\* The metrics of the windows the endpoint's learner can have: every field
\* absent or on either side of its thresholds.
TelemetryMetrics ==
    [video_to_text_ratio         : {NullRatio},
     avg_video_engagement        : {Null, 400},
     avg_text_engagement         : {Null, 400},
     learning_velocity           : {Null, 80},
     completion_rate             : {Null, 40, 90},
     frustration_events          : {Null, 4, 6},
     interactive_engagement_rate : {Null, 5, 40},
     concept_revisit_rate        : {Null, 100, 250},
     focus_score                 : {Null, 80}]

\* The windows aggregation hands to inference.
AggregatedWindows ==
    { AggregateWindow(c, m) : c \in Counts, m \in TelemetryMetrics }

\* The result lists inference returns for them, of at most MaxSignals
\* results.
TelemetryResults ==
    { r \in { AsResults(Infer(w)) : w \in AggregatedWindows } :
        Cardinality(DOMAIN r) <= MaxSignals }

\* infer_cognitive_updates aggregates the learner's window, infers from it
\* and returns; the endpoint applies the updates to the loaded object and
\* bumps the counters.
InferFromTelemetry(p) ==
    /\ pc[p] = "infer"
    /\ \E results \in TelemetryResults :
          /\ res' = [res EXCEPT ![p] = results]
          /\ work' = [work EXCEPT ![p] = Merge(snap[p], results)]
    /\ pc' = [pc EXCEPT ![p] = "commit"]
    /\ UNCHANGED <<db, snap, error, attempts, started>>
    /\ UNCHANGED <<pipelineVars, registerVars, frontendVars>>

NextPipeline ==
    \E p \in Procs :
        \/ BeginSerial(p)
        \/ InferFromTelemetry(p)
        \/ InferFail(p)
        \/ CommitOk(p)
        \/ CommitFail(p)
        \/ Cancel(p)
        \/ Return(p)

SpecPipeline == Init /\ [][NextPipeline]_vars

\* ----------------------------------------------------------- Register form
\* What a learner can type into a profile input: a value of the dimension's
\* enumerated type, or any other text.
FreeText == "kinesthetic"

Typed(name) == Domain[name] \cup {FreeText}

\* handleChange: the email or the password input changes.
handleChange(name, value) ==
    /\ formData[name] # value
    /\ formData' = [formData EXCEPT ![name] = value]
    /\ UNCHANGED <<formState, submitted, edits>>
    /\ UNCHANGED <<endpointVars, pipelineVars, frontendVars>>

\* handleProfileChange: a cognitive profile input changes.
handleProfileChange(name, value) ==
    /\ edits < MaxEdits
    /\ edits' = edits + 1
    /\ formData' = [formData EXCEPT !.cognitive_profile[name] = value]
    /\ UNCHANGED <<formState, submitted>>
    /\ UNCHANGED <<endpointVars, pipelineVars, frontendVars>>

\* handleSubmit up to its await: the form (email and password are required
\* inputs, the button is disabled while loading) posts formData.
handleSubmit ==
    /\ formState # "loading"
    /\ formData.email # ""
    /\ formData.password # ""
    /\ submitted' = submitted \cup {formData.cognitive_profile}
    /\ formState' = "loading"
    /\ UNCHANGED <<formData, edits>>
    /\ UNCHANGED <<endpointVars, pipelineVars, frontendVars>>

\* The post resolves: setSuccess, setLoading(false).
PostResolved ==
    /\ formState = "loading"
    /\ formState' = "success"
    /\ UNCHANGED <<formData, submitted, edits>>
    /\ UNCHANGED <<endpointVars, pipelineVars, frontendVars>>

\* The post rejects: setError, setLoading(false).
PostRejected ==
    /\ formState = "loading"
    /\ formState' = "error"
    /\ UNCHANGED <<formData, submitted, edits>>
    /\ UNCHANGED <<endpointVars, pipelineVars, frontendVars>>

InitRegister ==
    /\ db = StoredProfile(DefaultValue["learning_autonomy"],
                          [d \in Dims |-> Pct(DefaultConfidencePct)])
    /\ EndpointIdle
    /\ PipelineOff
    /\ RegisterOff
    /\ FrontendOff

NextRegister ==
    \/ \E value \in {"", "learner@example.org"} : handleChange("email", value)
    \/ \E value \in {"", "secret"} : handleChange("password", value)
    \/ \E name \in Dims : \E value \in Typed(name) :
          handleProfileChange(name, value)
    \/ handleSubmit
    \/ PostResolved
    \/ PostRejected

SpecRegister == InitRegister /\ [][NextRegister]_vars

\* aggregate, then infer on the window it produced.
NextAggregateInfer == Aggregate \/ RunInfer

SpecAggregateInfer == InitAggregate /\ [][NextAggregateInfer]_vars

\* ------------------------------------------------------ useSessionTracking
\* The component mounts: first render with sessionId = null, then the effect
\* runs once (dependency list []): it calls startSession and registers a
\* cleanup that reads the sessionId of this first render.
MountHook ==
    /\ ~hookMounted
    /\ mounts < MaxMounts
    /\ mounts' = mounts + 1
    /\ hookMounted' = TRUE
    /\ sessionId' = NoSession
    /\ cleanupSessionId' = NoSession
    /\ startInFlight' = startInFlight \cup {mounts + 1}
    /\ UNCHANGED <<received, ended>>
    /\ UNCHANGED <<endpointVars, pipelineVars, registerVars>>
    /\ UNCHANGED <<routerVars, wizardVars, chatVars, authVars>>

\* POST /sessions/start of mount i resolves with the session id i:
\* setSessionId (which has no effect once that mount is gone). The effect is
\* not run again, so its cleanup keeps the sessionId it closed over.
StartResolved(i) ==
    /\ i \in startInFlight
    /\ startInFlight' = startInFlight \ {i}
    /\ IF hookMounted /\ mounts = i
       THEN /\ sessionId' = i
            /\ received' = received \cup {i}
       ELSE UNCHANGED <<sessionId, received>>
    /\ UNCHANGED <<hookMounted, mounts, cleanupSessionId, ended>>
    /\ UNCHANGED <<endpointVars, pipelineVars, registerVars>>
    /\ UNCHANGED <<routerVars, wizardVars, chatVars, authVars>>

\* POST /sessions/start of mount i fails: the error is logged.
StartRejected(i) ==
    /\ i \in startInFlight
    /\ startInFlight' = startInFlight \ {i}
    /\ UNCHANGED <<hookMounted, mounts, sessionId, cleanupSessionId,
                   received, ended>>
    /\ UNCHANGED <<endpointVars, pipelineVars, registerVars>>
    /\ UNCHANGED <<routerVars, wizardVars, chatVars, authVars>>

\* The component unmounts: the cleanup calls endSession if the sessionId it
\* closed over is set, and endSession posts to /sessions/{sessionId}/end.
UnmountHook ==
    /\ hookMounted
    /\ hookMounted' = FALSE
    /\ ended' = IF cleanupSessionId # NoSession
                THEN ended \cup {cleanupSessionId}
                ELSE ended
    /\ sessionId' = NoSession
    /\ cleanupSessionId' = NoSession
    /\ UNCHANGED <<mounts, startInFlight, received>>
    /\ UNCHANGED <<endpointVars, pipelineVars, registerVars>>
    /\ UNCHANGED <<routerVars, wizardVars, chatVars, authVars>>

InitTrack ==
    /\ db = StoredProfile(DefaultValue["learning_autonomy"],
                          [d \in Dims |-> Pct(DefaultConfidencePct)])
    /\ EndpointIdle
    /\ PipelineOff
    /\ RegisterOff
    /\ FrontendOff

NextTrack ==
    \/ MountHook
    \/ \E i \in 1..MaxMounts : StartResolved(i)
    \/ \E i \in 1..MaxMounts : StartRejected(i)
    \/ UnmountHook

SpecTrack == InitTrack /\ [][NextTrack]_vars

\* ------------------------------------------------------------------ routes
\* The routes App defines: the element of each path and whether it is
\* wrapped in ProtectedRoute.
AppRoutes ==
    [p \in {"/login", "/register", "/", "/profile", "/chat", "/lesson"} |->
        CASE p = "/login"    -> [element |-> "Login",     protected |-> FALSE]
          [] p = "/register" -> [element |-> "Register",  protected |-> FALSE]
          [] p = "/"         -> [element |-> "Dashboard", protected |-> TRUE]
          [] p = "/profile"  -> [element |-> "Profile",   protected |-> TRUE]
          [] p = "/chat"     -> [element |-> "Chat",      protected |-> TRUE]
          [] p = "/lesson"   -> [element |-> "Lesson",    protected |-> TRUE]]

\* The element <Routes> picks for a path: none when no route matches.
RouteElement(path) ==
    IF path \in DOMAIN AppRoutes THEN AppRoutes[path].element ELSE "none"

\* -------------------------------------------------------- OnboardingWizard
\* What the component renders: the loading notice, the retry screen, or the
\* wizard itself.
WizardView ==
    IF wizLoading THEN "loading"
    ELSE IF wizError # "none" /\ Len(questions) = 0 THEN "retry"
    ELSE "wizard"

isLastQuestion == currentStep = Len(questions)

\* A falsy answer: no entry, or the empty text.
Falsy(a) == a \in {Unanswered, ""}

wizardRest == <<routerVars, trackVars, chatVars, authVars, endpointVars,
                pipelineVars, registerVars>>

\* The wizard mounts at /onboarding; its effect calls fetchQuestionnaire.
MountWizard ==
    /\ ~wizMounted
    /\ location = "/onboarding"
    /\ fetchesSent = 0
    /\ wizMounted' = TRUE
    /\ fetchInFlight' = fetchInFlight + 1
    /\ fetchesSent' = fetchesSent + 1
    /\ UNCHANGED <<questions, currentStep, responses, goals, wizLoading,
                   submitting, wizError, submitInFlight, submitsSent>>
    /\ UNCHANGED wizardRest

\* fetchQuestionnaire, try branch: setQuestions, setLoading(false).
FetchResolved ==
    /\ wizMounted
    /\ fetchInFlight > 0
    /\ fetchInFlight' = fetchInFlight - 1
    /\ questions' = Questionnaire
    /\ wizLoading' = FALSE
    /\ UNCHANGED <<wizMounted, currentStep, responses, goals, submitting,
                   wizError, fetchesSent, submitInFlight, submitsSent>>
    /\ UNCHANGED wizardRest

\* fetchQuestionnaire, catch branch: setError, setLoading(false).
FetchRejected ==
    /\ wizMounted
    /\ fetchInFlight > 0
    /\ fetchInFlight' = fetchInFlight - 1
    /\ wizError' = "load"
    /\ wizLoading' = FALSE
    /\ UNCHANGED <<wizMounted, questions, currentStep, responses, goals,
                   submitting, fetchesSent, submitInFlight, submitsSent>>
    /\ UNCHANGED wizardRest

\* The Retry button of the retry screen: fetchQuestionnaire.
ClickRetry ==
    /\ wizMounted
    /\ WizardView = "retry"
    /\ fetchesSent < MaxFetches
    /\ fetchInFlight' = fetchInFlight + 1
    /\ fetchesSent' = fetchesSent + 1
    /\ UNCHANGED <<wizMounted, questions, currentStep, responses, goals,
                   wizLoading, submitting, wizError, submitInFlight,
                   submitsSent>>
    /\ UNCHANGED wizardRest

\* handleAnswer on the QuestionCard of the current question.
handleAnswer(answer) ==
    /\ wizMounted
    /\ WizardView = "wizard"
    /\ ~isLastQuestion
    /\ responses' = [responses EXCEPT ![questions[currentStep + 1]] = answer]
    /\ UNCHANGED <<wizMounted, questions, currentStep, goals, wizLoading,
                   submitting, wizError, fetchInFlight, fetchesSent,
                   submitInFlight, submitsSent>>
    /\ UNCHANGED wizardRest

\* A variant of ClickNext whose button is never disabled.
ClickNextNeverDisabled ==
    /\ wizMounted
    /\ WizardView = "wizard"
    /\ ~isLastQuestion
    /\ currentStep' = IF currentStep < Len(questions)
                      THEN currentStep + 1 ELSE currentStep
    /\ UNCHANGED <<wizMounted, questions, responses, goals, wizLoading,
                   submitting, wizError, fetchInFlight, fetchesSent,
                   submitInFlight, submitsSent>>
    /\ UNCHANGED wizardRest

\* The Next button (rendered before the last step, disabled while the
\* current question has no answer): handleNext.
ClickNext ==
    /\ wizMounted
    /\ WizardView = "wizard"
    /\ ~isLastQuestion
    /\ ~Falsy(responses[questions[currentStep + 1]])
    /\ currentStep' = IF currentStep < Len(questions)
                      THEN currentStep + 1 ELSE currentStep
    /\ UNCHANGED <<wizMounted, questions, responses, goals, wizLoading,
                   submitting, wizError, fetchInFlight, fetchesSent,
                   submitInFlight, submitsSent>>
    /\ UNCHANGED wizardRest

\* The Back button (rendered after the first step, disabled while
\* submitting): handleBack.
ClickBack ==
    /\ wizMounted
    /\ WizardView = "wizard"
    /\ currentStep > 0
    /\ ~submitting
    /\ currentStep' = IF currentStep > 0 THEN currentStep - 1 ELSE currentStep
    /\ UNCHANGED <<wizMounted, questions, responses, goals, wizLoading,
                   submitting, wizError, fetchInFlight, fetchesSent,
                   submitInFlight, submitsSent>>
    /\ UNCHANGED wizardRest

\* GoalsForm onChange of learning_goal (shown on the last step).
ChangeGoal(value) ==
    /\ wizMounted
    /\ WizardView = "wizard"
    /\ isLastQuestion
    /\ goals' = value
    /\ UNCHANGED <<wizMounted, questions, currentStep, responses, wizLoading,
                   submitting, wizError, fetchInFlight, fetchesSent,
                   submitInFlight, submitsSent>>
    /\ UNCHANGED wizardRest

\* The Complete Onboarding button (rendered on the last step, disabled
\* without a learning_goal and while submitting): handleSubmit up to its
\* await.
ClickSubmit ==
    /\ wizMounted
    /\ WizardView = "wizard"
    /\ isLastQuestion
    /\ goals # ""
    /\ ~submitting
    /\ submitsSent < MaxSubmits
    /\ submitting' = TRUE
    /\ wizError' = "none"
    /\ submitInFlight' = submitInFlight + 1
    /\ submitsSent' = submitsSent + 1
    /\ UNCHANGED <<wizMounted, questions, currentStep, responses, goals,
                   wizLoading, fetchInFlight, fetchesSent>>
    /\ UNCHANGED wizardRest

\* The submission resolves: navigate('/dashboard'); the wizard's route is
\* left, so the wizard unmounts.
SubmitResolved ==
    /\ wizMounted
    /\ submitInFlight > 0
    /\ submitInFlight' = submitInFlight - 1
    /\ location' = "/dashboard"
    /\ wizMounted' = FALSE
    /\ UNCHANGED <<questions, currentStep, responses, goals, wizLoading,
                   submitting, wizError, fetchInFlight, fetchesSent,
                   submitsSent>>
    /\ UNCHANGED <<trackVars, chatVars, authVars, endpointVars,
                   pipelineVars, registerVars>>

\* The submission fails: setError, setSubmitting(false).
SubmitRejected ==
    /\ wizMounted
    /\ submitInFlight > 0
    /\ submitInFlight' = submitInFlight - 1
    /\ wizError' = "submit"
    /\ submitting' = FALSE
    /\ UNCHANGED <<wizMounted, questions, currentStep, responses, goals,
                   wizLoading, fetchInFlight, fetchesSent, submitsSent>>
    /\ UNCHANGED wizardRest

InitWizard ==
    /\ db = StoredProfile(DefaultValue["learning_autonomy"],
                          [d \in Dims |-> Pct(DefaultConfidencePct)])
    /\ EndpointIdle
    /\ PipelineOff
    /\ RegisterOff
    /\ TrackOff
    /\ WizardOff
    /\ ChatOff
    /\ AuthOff
    /\ location = "/onboarding"

NextWizard ==
    \/ MountWizard
    \/ FetchResolved
    \/ FetchRejected
    \/ ClickRetry
    \/ \E answer \in {"", "option"} : handleAnswer(answer)
    \/ ClickNext
    \/ ClickBack
    \/ \E value \in {"", "Master data structures"} : ChangeGoal(value)
    \/ ClickSubmit
    \/ SubmitResolved
    \/ SubmitRejected

SpecWizard == InitWizard /\ [][NextWizard]_vars

\* -------------------------------------------------------------------- Chat
\* String.trim of the texts typed into the input.
Trim(text) == IF text = "   " THEN "" ELSE text

UserMessages == { i \in 1..Len(messages) : messages[i].role = "user" }

chatRest == <<trackVars, routerVars, wizardVars, authVars, endpointVars,
              pipelineVars, registerVars>>

\* onChange of the input (disabled while loading): setInputValue.
TypeInput(text) ==
    /\ ~isLoading
    /\ inputValue # text
    /\ inputValue' = text
    /\ UNCHANGED <<messages, isLoading, chatInFlight>>
    /\ UNCHANGED chatRest

\* handleSendMessage up to its await (the form is submitted by the Send
\* button or the Enter key): nothing for a blank input or while loading;
\* else the user message is appended, the input cleared and the request
\* posted.
handleSendMessage ==
    /\ Cardinality(UserMessages) < MaxUserMessages
    /\ IF Trim(inputValue) = "" \/ isLoading
       THEN UNCHANGED <<messages, inputValue, isLoading, chatInFlight>>
       ELSE /\ messages' = Append(messages, Message("user", inputValue))
            /\ inputValue' = ""
            /\ isLoading' = TRUE
            /\ chatInFlight' = chatInFlight + 1
    /\ UNCHANGED chatRest

\* The request resolves: the reply is appended; finally setIsLoading(false).
ReplyResolved ==
    /\ chatInFlight > 0
    /\ chatInFlight' = chatInFlight - 1
    /\ messages' = Append(messages, Message("assistant", "generated_response"))
    /\ isLoading' = FALSE
    /\ UNCHANGED inputValue
    /\ UNCHANGED chatRest

\* A variant of ReplyRejected that only logs the error.
ReplyRejectedSilent ==
    /\ chatInFlight > 0
    /\ chatInFlight' = chatInFlight - 1
    /\ isLoading' = FALSE
    /\ UNCHANGED <<messages, inputValue>>
    /\ UNCHANGED chatRest

\* The request fails: the error notice is appended; finally
\* setIsLoading(false).
ReplyRejected ==
    /\ chatInFlight > 0
    /\ chatInFlight' = chatInFlight - 1
    /\ messages' = Append(messages, Message("assistant", "Sorry"))
    /\ isLoading' = FALSE
    /\ UNCHANGED inputValue
    /\ UNCHANGED chatRest

InitChat ==
    /\ db = StoredProfile(DefaultValue["learning_autonomy"],
                          [d \in Dims |-> Pct(DefaultConfidencePct)])
    /\ EndpointIdle
    /\ PipelineOff
    /\ RegisterOff
    /\ TrackOff
    /\ WizardOff
    /\ ChatOff
    /\ AuthOff
    /\ location = "/chat"

NextChat ==
    \/ \E text \in {"", "   ", "recursion", "arrays"} : TypeInput(text)
    \/ handleSendMessage
    \/ ReplyResolved
    \/ ReplyRejected

SpecChat == InitChat /\ [][NextChat]_vars

\* ------------------------------------------------- AuthProvider and routes
\* ProtectedRoute: the loader while loading, else the children when
\* authenticated, else <Navigate to="/login" replace />.
ProtectedRoute(child) ==
    IF authLoading THEN "Loader"
    ELSE IF isAuthenticated THEN child
    ELSE "Navigate:/login"

\* What <Routes> renders for a path.
RouteRender(path) ==
    IF path \notin DOMAIN AppRoutes THEN "none"
    ELSE IF AppRoutes[path].protected
         THEN ProtectedRoute(AppRoutes[path].element)
         ELSE AppRoutes[path].element

\* What AuthProvider renders: {!loading && children}, the children being
\* the App with its routes.
AppScreen == IF authLoading THEN "nothing" ELSE RouteRender(location)

\* No <Navigate> is rendered: its effect runs with the render that shows
\* it, before any event or response is handled.
Settled == AppScreen # "Navigate:/login"

authRest == <<trackVars, wizardVars, chatVars, endpointVars, pipelineVars,
              registerVars>>

\* validateToken up to its await: with no token stored, setLoading(false).
ValidateStart ==
    /\ validatePc = "start"
    /\ IF token # "none"
       THEN /\ validatePc' = "me"
            /\ UNCHANGED authLoading
       ELSE /\ validatePc' = "done"
            /\ authLoading' = FALSE
    /\ UNCHANGED <<token, user, isAuthenticated, validateOutcome, loginPc,
                   loginsStarted, loggedOut, location>>
    /\ UNCHANGED authRest

\* GET /student/me resolves (the backend accepts the token): setUser,
\* setIsAuthenticated(true), setLoading(false).
ValidateResolved ==
    /\ validatePc = "me"
    /\ token = "valid"
    /\ validatePc' = "done"
    /\ validateOutcome' = "accepted"
    /\ user' = "record"
    /\ isAuthenticated' = TRUE
    /\ authLoading' = FALSE
    /\ UNCHANGED <<token, loginPc, loginsStarted, loggedOut, location>>
    /\ UNCHANGED authRest

\* A variant of ValidateRejected that leaves the token stored.
ValidateRejectedKeepsToken ==
    /\ validatePc = "me"
    /\ validatePc' = "done"
    /\ validateOutcome' = "rejected"
    /\ isAuthenticated' = FALSE
    /\ authLoading' = FALSE
    /\ UNCHANGED <<token, user, loginPc, loginsStarted, loggedOut, location>>
    /\ UNCHANGED authRest

\* GET /student/me fails (expired token, or no answer): removeToken,
\* setIsAuthenticated(false), setLoading(false).
ValidateRejected ==
    /\ validatePc = "me"
    /\ validatePc' = "done"
    /\ validateOutcome' = "rejected"
    /\ token' = "none"
    /\ isAuthenticated' = FALSE
    /\ authLoading' = FALSE
    /\ UNCHANGED <<user, loginPc, loginsStarted, loggedOut, location>>
    /\ UNCHANGED authRest

\* The user follows a link or the browser history to a route of the App.
Visit(path) ==
    /\ ~authLoading
    /\ Settled
    /\ path # location
    /\ location' = path
    /\ UNCHANGED authVars
    /\ UNCHANGED authRest

\* <Navigate to="/login" replace /> takes effect.
Redirect ==
    /\ AppScreen = "Navigate:/login"
    /\ location' = "/login"
    /\ UNCHANGED authVars
    /\ UNCHANGED authRest

\* Login.handleSubmit calls login: the access-token request is posted.
LoginSubmit ==
    /\ AppScreen = "Login"
    /\ loginPc = "idle"
    /\ loginsStarted < MaxLogins
    /\ loginsStarted' = loginsStarted + 1
    /\ loginPc' = "token"
    /\ loggedOut' = FALSE
    /\ UNCHANGED <<token, user, isAuthenticated, authLoading, validatePc,
                   validateOutcome, location>>
    /\ UNCHANGED authRest

\* login after its first await: setToken, then GET /student/me is sent.
LoginTokenResolved ==
    /\ loginPc = "token"
    /\ Settled
    /\ token' = "valid"
    /\ loginPc' = "me"
    /\ UNCHANGED <<user, isAuthenticated, authLoading, validatePc,
                   validateOutcome, loginsStarted, loggedOut, location>>
    /\ UNCHANGED authRest

\* Either request of login fails: login throws, Login shows the error.
LoginRejected ==
    /\ loginPc \in {"token", "me"}
    /\ Settled
    /\ loginPc' = "idle"
    /\ UNCHANGED <<token, user, isAuthenticated, authLoading, validatePc,
                   validateOutcome, loginsStarted, loggedOut, location>>
    /\ UNCHANGED authRest

\* login after its second await: setUser, setIsAuthenticated(true); then
\* Login.handleSubmit navigates to /.
LoginMeResolved ==
    /\ loginPc = "me"
    /\ Settled
    /\ user' = "record"
    /\ isAuthenticated' = TRUE
    /\ loginPc' = "idle"
    /\ location' = "/"
    /\ UNCHANGED <<token, authLoading, validatePc, validateOutcome,
                   loginsStarted, loggedOut>>
    /\ UNCHANGED authRest

\* Header.handleLogout (the button is shown when authenticated): logout,
\* then navigate('/login').
Logout ==
    /\ ~authLoading
    /\ isAuthenticated
    /\ token' = "none"
    /\ user' = "null"
    /\ isAuthenticated' = FALSE
    /\ location' = "/login"
    /\ loggedOut' = TRUE
    /\ UNCHANGED <<authLoading, validatePc, validateOutcome, loginPc,
                   loginsStarted>>
    /\ UNCHANGED authRest

\* The application is opened, or reloaded, at a route with or without a
\* stored token.
InitAuth ==
    /\ db = StoredProfile(DefaultValue["learning_autonomy"],
                          [d \in Dims |-> Pct(DefaultConfidencePct)])
    /\ EndpointIdle
    /\ PipelineOff
    /\ RegisterOff
    /\ TrackOff
    /\ WizardOff
    /\ ChatOff
    /\ \E t \in {"none", "valid", "expired"} : AuthMounted(t)
    /\ location \in DOMAIN AppRoutes

NextAuth ==
    \/ ValidateStart
    \/ ValidateResolved
    \/ ValidateRejected
    \/ \E path \in DOMAIN AppRoutes : Visit(path)
    \/ Redirect
    \/ LoginSubmit
    \/ LoginTokenResolved
    \/ LoginRejected
    \/ LoginMeResolved
    \/ Logout

SpecAuth == InitAuth /\ [][NextAuth]_vars

TypeOK ==
    /\ db.profile_version \in Nat
    /\ db.total_adaptations \in Nat
    /\ started \in 0..MaxInvocations
    /\ \A p \in Procs :
          /\ pc[p] \in {"idle", "infer", "commit", "done", "failed"}
          /\ attempts[p] \in Nat
          /\ res[p] \in ResultLists
    /\ token \in {"none", "valid", "expired"}
    /\ user \in {"null", "record"}
    /\ isAuthenticated \in BOOLEAN
    /\ authLoading \in BOOLEAN
    /\ validatePc \in {"start", "me", "done"}
    /\ validateOutcome \in {"none", "accepted", "rejected"}
    /\ loginPc \in {"idle", "token", "me"}
    /\ loginsStarted \in 0..MaxLogins
    /\ loggedOut \in BOOLEAN

\* ------------------------------------------------------------------ claims
LA == "learning_autonomy"
CT == "complexity_tolerance"

\* C1: once an invocation has committed, every dimension present in its
\* results holds the candidate's value when the candidate's confidence is at
\* least 0.70 (0.70 itself included), and holds the value the invocation
\* loaded, with the confidence blended, when it is below 0.70.
C1_ThresholdGate ==
    \A p \in Procs :
        pc[p] = "done" =>
            \A d \in DOMAIN res[p] :
                /\ res[p][d].confidence >= 70 => db.value[d] = res[p][d].value
                /\ res[p][d].confidence < 70 =>
                      /\ db.value[d] = snap[p].value[d]
                      /\ db.confidence[d] * 100 =
                            snap[p].confidence[d] * (100 - 15)
                                + Pct(res[p][d].confidence) * 15

\* C1 witness: a candidate at exactly 0.70 replaced a different stored value.
C1_Witness ==
    \E p \in Procs :
        /\ pc[p] = "done"
        /\ CT \in DOMAIN res[p]
        /\ res[p][CT].confidence = 70
        /\ snap[p].value[CT] # res[p][CT].value
        /\ db.value[CT] = res[p][CT].value

\* C2: once an invocation has committed, the confidence of every dimension
\* present in its results is old * 0.85 + candidate * 0.15; independent at
\* 0.80 merged with a candidate at 0.60 ends at 0.77, still independent.
C2_BlendedConfidence ==
    \A p \in Procs :
        pc[p] = "done" =>
            /\ \A d \in DOMAIN res[p] :
                  db.confidence[d] * 100 =
                      snap[p].confidence[d] * 85 + Pct(res[p][d].confidence) * 15
            /\ ( /\ LA \in DOMAIN res[p]
                 /\ res[p][LA].confidence = 60
                 /\ snap[p].value[LA] = "independent"
                 /\ snap[p].confidence[LA] = Pct(80) )
                  => /\ db.confidence[LA] = Pct(77)
                     /\ db.value[LA] = "independent"

\* C2 witness: the merge of a 0.60 candidate into independent / 0.80.
C2_Witness ==
    \E p \in Procs :
        /\ pc[p] = "done"
        /\ LA \in DOMAIN res[p]
        /\ res[p][LA].confidence = 60
        /\ snap[p].value[LA] = "independent"
        /\ snap[p].confidence[LA] = Pct(80)
        /\ db.confidence[LA] = Pct(77)

\* Some value or confidence of b differs from that of a.
DimensionChanged(a, b) ==
    \E d \in Dims : a.value[d] # b.value[d] \/ a.confidence[d] # b.confidence[d]

\* C3: once an invocation has committed, profile_version and
\* total_adaptations are each one more than loaded if the merge changed a
\* value or a confidence, and are as loaded if it changed none.
C3_BumpIffChanged ==
    \A p \in Procs :
        pc[p] = "done" =>
            IF DimensionChanged(snap[p], db)
            THEN /\ db.profile_version = snap[p].profile_version + 1
                 /\ db.total_adaptations = snap[p].total_adaptations + 1
            ELSE /\ db.profile_version = snap[p].profile_version
                 /\ db.total_adaptations = snap[p].total_adaptations

\* C4: an invocation that committed the merge of an empty result list left
\* the values, the confidences, profile_version and total_adaptations as it
\* loaded them.
C4_EmptyMergeIdempotent ==
    \A p \in Procs :
        (pc[p] = "done" /\ DOMAIN res[p] = {}) =>
            /\ db.value = snap[p].value
            /\ db.confidence = snap[p].confidence
            /\ db.profile_version = snap[p].profile_version
            /\ db.total_adaptations = snap[p].total_adaptations

\* C5: once an invocation has committed, every dimension absent from its
\* results has the value and the confidence the invocation loaded.
C5_AbsentDimsUntouched ==
    \A p \in Procs :
        pc[p] = "done" =>
            \A d \in Dims \ DOMAIN res[p] :
                /\ db.value[d] = snap[p].value[d]
                /\ db.confidence[d] = snap[p].confidence[d]

\* C5 witness: a committed merge that changed a present dimension's value and
\* confidence while other dimensions were absent from the results.
C5_Witness ==
    \E p \in Procs :
        /\ pc[p] = "done"
        /\ \E d \in DOMAIN res[p] :
              /\ db.value[d] # snap[p].value[d]
              /\ db.confidence[d] # snap[p].confidence[d]
        /\ Dims \ DOMAIN res[p] # {}

\* C6: every confidence of the persisted profile is in [0,1] and every value
\* is a member of its dimension's domain.
C6_RangeAndDomain ==
    \A d \in Dims :
        /\ db.confidence[d] \in 0..Scale
        /\ db.value[d] \in Domain[d]

\* C6 witness: a profile two merges on, with a value and a confidence that no
\* starting profile has.
C6_Witness ==
    /\ db.profile_version = InitialProfileVersion + 2
    /\ \E d \in RuledDims :
          /\ db.value[d] # DefaultValue[d]
          /\ \A c \in {0, 50, 80, 100} : db.confidence[d] # Pct(c)

\* The profile the two callers' invocations started from: the older load.
OlderLoad ==
    IF snap["manual"].profile_version <= snap["scheduled"].profile_version
    THEN snap["manual"]
    ELSE snap["scheduled"]

\* C7: when the invocations of the two callers have both committed, the
\* persisted profile is the result of the two merges applied one after the
\* other in some order; and no commit writes a profile whose loaded
\* profile_version is no longer the persisted one.
C7_NoLostUpdate ==
    /\ [](( pc["manual"] = "done" /\ pc["scheduled"] = "done" ) =>
            \/ db = Merge(Merge(OlderLoad, res["manual"]), res["scheduled"])
            \/ db = Merge(Merge(OlderLoad, res["scheduled"]), res["manual"]))
    /\ [][ \A p \in Procs :
              ( pc[p] = "commit" /\ pc'[p] = "done" ) =>
                  snap[p].profile_version = db.profile_version ]_vars

C9_RetryOnceOnConflict ==
    /\ [](\A p \in Procs : attempts[p] <= 2)
    /\ [][ \A p \in Procs :
              ( /\ pc[p] = "commit"
                /\ attempts'[p] = attempts[p] + 1
                /\ db.profile_version # snap[p].profile_version ) =>
                  /\ db' = db
                  /\ \/ /\ attempts[p] = 0
                        /\ pc'[p] = "infer"
                        /\ snap'[p] = db
                     \/ /\ attempts[p] = 1
                        /\ pc'[p] = "failed"
                        /\ error'[p] = "PersistenceConflict" ]_vars

\* C10: an invocation whose aggregation or inference failed has ended in
\* failure, has issued no commit, and left the persisted profile as loaded.
C10_FailBeforeWrite ==
    \A p \in Procs :
        error[p] \in {"DataUnavailable", "InferenceError"} =>
            /\ pc[p] = "failed"
            /\ attempts[p] = 0
            /\ db = snap[p]

\* C10 witness: an invocation ended by DataUnavailable.
C10_Witness ==
    \E p \in Procs :
        /\ error[p] = "DataUnavailable"
        /\ pc[p] = "failed"
        /\ attempts[p] = 0

\* ------------------------------------------------------------ C11 .. C16
\* The window fields the rules of each ruled dimension read, and the value
\* its "otherwise" rule yields, as the rule tables state them.
FieldsNeeded ==
    [input_preference     |-> {"video_to_text_ratio", "avg_video_engagement",
                               "avg_text_engagement"},
     complexity_tolerance |-> {"learning_velocity", "completion_rate",
                               "frustration_events"},
     engagement_style     |-> {"interactive_engagement_rate"},
     learning_autonomy    |-> {"concept_revisit_rate", "focus_score",
                               "frustration_events"}]

OtherwiseValue ==
    [input_preference     |-> "mixed",
     complexity_tolerance |-> "medium",
     engagement_style     |-> "mixed",
     learning_autonomy    |-> "mixed"]

FieldIsNull(w, f) ==
    IF f = "video_to_text_ratio" THEN w[f] = NullRatio ELSE w[f] = Null

SomeFieldNull(w, d) == \E f \in FieldsNeeded[d] : FieldIsNull(w, f)

ResultsFor(d) == { r \in inferred : r.dimension = d }

Result(d, v, c) ==
    [dimension |-> d, candidate_value |-> v, confidence |-> c]

\* C12: with video_to_text_ratio and both engagement averages present, infer
\* yields for input_preference VISUAL at 0.90 when the ratio is above 2.0 and
\* video engagement above 3.5, else VERBAL at 0.90 when the ratio is below
\* 0.5 and text engagement above 3.5, else MIXED at 0.60; a ratio of exactly
\* 2.0 or 0.5 falls through.
C12_InputPreferenceRule ==
    (stage = "inferred" /\ ~SomeFieldNull(window, "input_preference")) =>
        LET r == window.video_to_text_ratio
        IN  ResultsFor("input_preference") =
              IF r.num > 2 * r.den /\ window.avg_video_engagement > 350
              THEN { Result("input_preference", "visual", 90) }
              ELSE IF 2 * r.num < r.den /\ window.avg_text_engagement > 350
                   THEN { Result("input_preference", "verbal", 90) }
                   ELSE { Result("input_preference", "mixed", 60) }

\* A ratio of exactly 2.0 with high engagement on both sides is inferred
\* as MIXED.
C12_Witness ==
    /\ stage = "inferred"
    /\ window.video_to_text_ratio = Frac(2, 1)
    /\ window.avg_video_engagement = 400
    /\ window.avg_text_engagement = 400
    /\ ResultsFor("input_preference") =
          { Result("input_preference", "mixed", 60) }

\* C13: with learning_velocity, completion_rate and frustration_events
\* present, infer yields for complexity_tolerance HIGH at 0.85 when velocity
\* is above 0.7 and completion above 0.8, else LOW at 0.75 when frustration
\* events exceed 5 or completion is below 0.5, else MEDIUM at 0.70; HIGH wins
\* over LOW when both conditions hold.
C13_ComplexityToleranceRule ==
    (stage = "inferred" /\ ~SomeFieldNull(window, "complexity_tolerance")) =>
        ResultsFor("complexity_tolerance") =
          IF window.learning_velocity > 70 /\ window.completion_rate > 80
          THEN { Result("complexity_tolerance", "high", 85) }
          ELSE IF window.frustration_events > 5 \/ window.completion_rate < 50
               THEN { Result("complexity_tolerance", "low", 75) }
               ELSE { Result("complexity_tolerance", "medium", 70) }

\* Velocity 0.8, completion 0.9 and six frustration events are inferred as
\* HIGH.
C13_Witness ==
    /\ stage = "inferred"
    /\ window.learning_velocity = 80
    /\ window.completion_rate = 90
    /\ window.frustration_events = 6
    /\ ResultsFor("complexity_tolerance") =
          { Result("complexity_tolerance", "high", 85) }

\* Scenario B: only frustration_events = 6 and completion_rate = 0.4 present.
ScenarioB ==
    [NoWindow EXCEPT !.frustration_events = 6, !.completion_rate = 40]

\* C14: for the window with only frustration_events = 6 and completion_rate
\* = 0.4 present, infer returns complexity_tolerance = LOW at 0.75.
C14_ScenarioBLow ==
    (stage = "inferred" /\ window = ScenarioB) =>
        ResultsFor("complexity_tolerance") =
            { Result("complexity_tolerance", "low", 75) }

\* Scenario B has been inferred.
C14_Witness ==
    /\ stage = "inferred"
    /\ window = ScenarioB
    /\ window.learning_velocity = Null
    /\ inferred # {}

\* C15: with concept_revisit_rate, focus score and frustration_events
\* present, infer yields for learning_autonomy INDEPENDENT at 0.80 when the
\* revisit rate is below 1.2 and focus above 0.7, else GUIDED at 0.75 when the
\* revisit rate is above 2.0 or frustration events exceed 3, else MIXED at
\* 0.60; INDEPENDENT wins over GUIDED when both conditions hold.
C15_LearningAutonomyRule ==
    (stage = "inferred" /\ ~SomeFieldNull(window, "learning_autonomy")) =>
        ResultsFor("learning_autonomy") =
          IF window.concept_revisit_rate < 120 /\ window.focus_score > 70
          THEN { Result("learning_autonomy", "independent", 80) }
          ELSE IF \/ window.concept_revisit_rate > 200
                  \/ window.frustration_events > 3
               THEN { Result("learning_autonomy", "guided", 75) }
               ELSE { Result("learning_autonomy", "mixed", 60) }

\* Revisit rate 1.0, focus 0.8 and four frustration events are inferred as
\* INDEPENDENT.
C15_Witness ==
    /\ stage = "inferred"
    /\ window.concept_revisit_rate = 100
    /\ window.focus_score = 80
    /\ window.frustration_events = 4
    /\ ResultsFor("learning_autonomy") =
          { Result("learning_autonomy", "independent", 80) }

\* C16: with interactive_engagement_rate present, infer yields for
\* engagement_style ACTIVE at 0.80 above 30%, PASSIVE at 0.75 below 10%, and
\* MIXED at 0.65 otherwise, at exactly 30% and exactly 10% too.
C16_EngagementStyleRule ==
    (stage = "inferred" /\ ~SomeFieldNull(window, "engagement_style")) =>
        ResultsFor("engagement_style") =
          IF window.interactive_engagement_rate > 30
          THEN { Result("engagement_style", "active", 80) }
          ELSE IF window.interactive_engagement_rate < 10
               THEN { Result("engagement_style", "passive", 75) }
               ELSE { Result("engagement_style", "mixed", 65) }

\* An interactive share of exactly 30% is inferred as MIXED.
C16_Witness ==
    /\ stage = "inferred"
    /\ window.interactive_engagement_rate = 30
    /\ ResultsFor("engagement_style") =
          { Result("engagement_style", "mixed", 65) }

\* ------------------------------------------------------------ C17 .. C19
\* The dimensions no inference rule is defined for.
UnruledDims ==
    {"instruction_flow", "concept_type", "motivation_type",
     "feedback_preference"}

\* C17: the results inference returns to the endpoint never name
\* instruction_flow, concept_type, motivation_type or feedback_preference,
\* and no step of an aggregate, infer, merge invocation changes the stored
\* value or confidence of these four dimensions.
C17_UnruledDimsFrozen ==
    /\ [](\A p \in Procs : DOMAIN res[p] \cap UnruledDims = {})
    /\ [][\A d \in UnruledDims :
              /\ db'.value[d] = db.value[d]
              /\ db'.confidence[d] = db.confidence[d]]_vars

\* An invocation inferred a result from the learner's window and committed
\* a merge that changed the profile, with the four dimensions as loaded.
C17_Witness ==
    \E p \in Procs :
        /\ pc[p] = "done"
        /\ DOMAIN res[p] # {}
        /\ DimensionChanged(snap[p], db)
        /\ db.profile_version > InitialProfileVersion + 1
        /\ \A d \in UnruledDims :
              /\ db.value[d] = snap[p].value[d]
              /\ db.confidence[d] = snap[p].confidence[d]

\* C18: aggregate yields video_to_text_ratio = videos / (videos + text), a
\* value in [0,1], and yields null, never 0, exactly when videos + text = 0.
C18_RatioOrNull ==
    stage = "window" =>
        LET r == window.video_to_text_ratio
            n == counts.videos + counts.text
        IN  IF n = 0
            THEN r = NullRatio
            ELSE /\ r # NullRatio
                 /\ r.den > 0
                 /\ r.num * n = counts.videos * r.den
                 /\ 0 <= r.num
                 /\ r.num <= r.den

\* A window aggregated from no video and no text interaction has a null
\* ratio while its learner has other metrics.
C18_Witness ==
    /\ stage = "window"
    /\ counts.videos = 0
    /\ counts.text = 0
    /\ window.video_to_text_ratio = NullRatio
    /\ window.frustration_events = 6

\* C19: once an invocation has committed, profile_version, which starts at
\* 1, is one more than loaded whether or not the merge changed a dimension,
\* and total_adaptations is one more than loaded if the merge changed a
\* value or a confidence and is as loaded if it changed none.
C19_VersionEveryMergeAdaptationsOnChange ==
    /\ db.profile_version >= InitialProfileVersion
    /\ \A p \in Procs :
          pc[p] = "done" =>
              /\ db.profile_version = snap[p].profile_version + 1
              /\ db.total_adaptations =
                    snap[p].total_adaptations +
                        (IF DimensionChanged(snap[p], db) THEN 1 ELSE 0)

\* ------------------------------------------------------------------- C20
\* C20: every cognitive profile the Register form has submitted, the one
\* with the form's default field values included, has for each of the 8
\* dimensions a value of that dimension's enumerated domain.
C20_SubmittedProfileInDomain ==
    \A profile \in submitted :
        \A d \in Dims : profile[d] \in Domain[d]


C26_AggregatedNeverVisual ==
    stage = "inferred" =>
        \A r \in inferred :
            r.dimension = "input_preference" => r.candidate_value # "visual"

\* A window of videos only with video engagement above 3.5 is inferred as
\* MIXED.
C26_Witness ==
    /\ stage = "inferred"
    /\ counts.videos = MaxCount
    /\ counts.text = 0
    /\ window.avg_video_engagement = 400
    /\ window.avg_text_engagement = 400
    /\ ResultsFor("input_preference") =
          { Result("input_preference", "mixed", 60) }

\* The dimensions whose fallback candidate is MIXED.
MixedFallbackDims ==
    {"input_preference", "engagement_style", "learning_autonomy"}

C23_StartedSessionEndedOnUnmount ==
    ~hookMounted => received \subseteq ended


\* ------------------------------------------------------------ C24 and C30
\* C24: once an onboarding submission has succeeded, the router is at a path
\* App defines a route for, and that route renders Dashboard.
C24_OnboardingLandsOnDashboard ==
    (submitsSent > 0 /\ ~wizMounted) =>
        /\ location \in DOMAIN AppRoutes
        /\ RouteElement(location) = "Dashboard"

\* C30: currentStep stays within 0..questions.length; it goes up only by one
\* and only while the current question has an answer; a submission is sent
\* only from the goals step, with a learning_goal, and with no submission in
\* flight; a failed submission leaves submitting false and responses and
\* goals as they were.
C30_WizardSteps ==
    /\ [](currentStep \in 0..Len(questions) /\ submitInFlight <= 1)
    /\ [][currentStep' > currentStep =>
              /\ currentStep' = currentStep + 1
              /\ ~Falsy(responses[questions[currentStep + 1]])]_vars
    /\ [][currentStep' < currentStep =>
              currentStep' = currentStep - 1]_vars
    /\ [][submitsSent' # submitsSent =>
              /\ WizardView = "wizard"
              /\ currentStep = Len(questions)
              /\ Len(questions) = NumQuestions
              /\ goals # ""
              /\ submitInFlight = 0]_vars
    /\ [][(submitInFlight' < submitInFlight /\ wizMounted') =>
              /\ submitting' = FALSE
              /\ responses' = responses
              /\ goals' = goals]_vars

\* A second submission is in flight from the goals step after the first one
\* failed, every question answered.
C30_Witness ==
    /\ wizMounted
    /\ currentStep = NumQuestions
    /\ submitsSent = 2
    /\ submitInFlight = 1
    /\ submitting
    /\ goals # ""
    /\ \A q \in 1..NumQuestions : ~Falsy(responses[q])

\* ------------------------------------------------------------------- C29
\* C29: at most one conversation request is in flight; isLoading is true
\* exactly while one is; the messages alternate between assistant and user,
\* the last one being the user's exactly while a request is in flight; and
\* the message list only grows.
C29_ChatAlternates ==
    /\ [](/\ chatInFlight \in {0, 1}
          /\ isLoading <=> chatInFlight = 1
          /\ \A i \in 1..Len(messages) :
                messages[i].role =
                    IF i % 2 = 1 THEN "assistant" ELSE "user"
          /\ chatInFlight = 1 <=> messages[Len(messages)].role = "user")
    /\ [][/\ Len(messages') >= Len(messages)
          /\ SubSeq(messages', 1, Len(messages)) = messages]_vars

\* The second user message is answered after the first request failed and
\* its error notice was shown.
C29_Witness ==
    /\ Len(messages) = 5
    /\ messages[3] = Message("assistant", "Sorry")
    /\ messages[4].role = "user"
    /\ messages[5] = Message("assistant", "generated_response")
    /\ ~isLoading

\* ----------------------------------------------------- claims C21, C22, C28
ProtectedPaths == {p \in DOMAIN AppRoutes : AppRoutes[p].protected}
ProtectedComponents == {AppRoutes[p].element : p \in ProtectedPaths}

\* With the auth check finished and the user not authenticated, a protected
\* route renders no protected component, only the redirect to /login.
UnauthenticatedSeesNoProtected ==
    (~authLoading /\ ~isAuthenticated /\ location \in ProtectedPaths)
        => /\ AppScreen \notin ProtectedComponents
           /\ AppScreen = "Navigate:/login"

\* C21 as stated: with loading false and isAuthenticated false, a visit to
\* /, /profile, /chat or /lesson renders none of the protected components
\* and redirects to /login; while loading is true only the loader is shown.
C21_LoaderWhileLoading ==
    /\ UnauthenticatedSeesNoProtected
    /\ authLoading => AppScreen = "Loader"

\* C22: a token stored at mount that the backend accepts leaves, once
\* loading finishes, isAuthenticated true and user holding the fetched
\* record with no login started; a token the backend rejects is removed and
\* isAuthenticated is false. Nothing is rendered before the check finishes.
C22_SessionRestoredOnReload ==
    /\ [](authLoading => (AppScreen = "nothing" /\ loginsStarted = 0))
    /\ [][(authLoading /\ ~authLoading') =>
            /\ validateOutcome' = "accepted" =>
                  /\ token = "valid"
                  /\ isAuthenticated'
                  /\ user' = "record"
                  /\ loginsStarted' = 0
            /\ validateOutcome' = "rejected" =>
                  /\ token # "none"
                  /\ token' = "none"
                  /\ ~isAuthenticated']_vars

\* The stored token was accepted: the session is back with no login.
C22_Witness ==
    /\ ~authLoading
    /\ validateOutcome = "accepted"
    /\ isAuthenticated
    /\ user = "record"
    /\ loginsStarted = 0
    /\ AppScreen \in ProtectedComponents

\* The stored token was rejected: it is gone and the user is logged out.
C22_WitnessRejected ==
    /\ ~authLoading
    /\ validateOutcome = "rejected"
    /\ token = "none"
    /\ ~isAuthenticated

\* C28: once logout has been called and no login is started afterwards,
\* isAuthenticated is false, user is null and no token is stored, even when
\* a login started before the logout completes after it.
C28_LogoutSticks ==
    loggedOut => /\ ~isAuthenticated
                 /\ user = "null"
                 /\ token = "none"

====
